---- MODULE Spec2Model ----
(***************************************************************************)
(* A model of the code-review command line tool (src/index.ts): argument   *)
(* parsing in main(), CodeReviewBot.review() with its changed-file         *)
(* listing, file filter, concurrent per-file diff fan-out, and the single  *)
(* POST to the text-generation endpoint.                                   *)
(*                                                                         *)
(* JavaScript strings are TLA+ strings; the string library calls the code  *)
(* makes (startsWith, split, trim, join, RegExp.test) are operators that   *)
(* work on the characters.  An optional value (undefined or a value) is a  *)
(* sequence of length 0 or 1.  Timestamped log lines are not modelled; the *)
(* lines main() prints with the result or the error are.                   *)
(***************************************************************************)
EXTENDS Integers, Sequences, FiniteSets, TLC

VARIABLES
    argv,        \* process.argv after the script name
    pc,          \* position of main()/review() in their code
    args,        \* the args object built by main()
    listing,     \* optional: raw [out, err] of the `git diff --name-only` child
    allFiles,    \* review(): allFiles
    files,       \* review(): files
    procs,       \* per file index: optional raw [out, err] of its `git diff` child, once read
    running,     \* indices of the per-file execGit calls still in flight
    values,      \* Promise.all: the result array being filled
    order,       \* indices of the fulfilled per-file fetches, in completion order
    diffs,       \* review(): optional diffs array, once Promise.all fulfilled
    combinedDiff,\* review(): combinedDiff
    pending,     \* optional: the error travelling to the enclosing catch
    httpCount,   \* number of POSTs issued to the model endpoint
    httpInFlight,\* a POST is awaiting its response
    httpReply,   \* optional: what the endpoint (or the transport) answered
    result,      \* optional: the CodeReview returned by review()
    thrown,      \* errors that left review(), in order
    printed,     \* what main() wrote, in order
    exitStatus   \* optional: the process exit status

vars == <<argv, pc, args, listing, allFiles, files, procs, running, values, order,
          diffs, combinedDiff, pending, httpCount, httpInFlight, httpReply,
          result, thrown, printed, exitStatus>>

(***************************************************************************)
(* Bounds of the model.                                                    *)
(***************************************************************************)
MaxListed == 2

(***************************************************************************)
(* Optional values and JavaScript truthiness of an optional string.        *)
(***************************************************************************)
None == <<>>

Some(v) == <<v>>

Truthy(o) == o # None /\ o[1] # ""

(***************************************************************************)
(* String library.                                                         *)
(***************************************************************************)
CharAt(s, i) == SubSeq(s, i, i)

StartsWith(s, p) == Len(s) >= Len(p) /\ SubSeq(s, 1, Len(p)) = p

EndsWith(s, p) == Len(s) >= Len(p) /\ SubSeq(s, Len(s) - Len(p) + 1, Len(s)) = p

Contains(s, p) == \E i \in 1..(Len(s) - Len(p) + 1) : SubSeq(s, i, i + Len(p) - 1) = p

Whitespace == {" ", "\n", "\t", "\r"}

RECURSIVE TrimStart(_)
TrimStart(s) ==
    IF Len(s) > 0 /\ CharAt(s, 1) \in Whitespace
    THEN TrimStart(SubSeq(s, 2, Len(s)))
    ELSE s

RECURSIVE TrimEnd(_)
TrimEnd(s) ==
    IF Len(s) > 0 /\ CharAt(s, Len(s)) \in Whitespace
    THEN TrimEnd(SubSeq(s, 1, Len(s) - 1))
    ELSE s

Trim(s) == TrimEnd(TrimStart(s))

\* String.prototype.split with a one-character separator: always at least one piece.
RECURSIVE SplitFrom(_, _, _, _)
SplitFrom(s, sep, i, cur) ==
    IF i > Len(s) THEN <<cur>>
    ELSE IF CharAt(s, i) = sep
         THEN <<cur>> \o SplitFrom(s, sep, i + 1, "")
         ELSE SplitFrom(s, sep, i + 1, cur \o CharAt(s, i))

Split(s, sep) == SplitFrom(s, sep, 1, "")

\* Array.prototype.join
RECURSIVE Join(_, _)
Join(seq, sep) ==
    IF Len(seq) = 0 THEN ""
    ELSE IF Len(seq) = 1 THEN seq[1]
    ELSE seq[1] \o sep \o Join(Tail(seq), sep)

\* argv.find(arg => arg.startsWith(prefix)): the first such element, or undefined.
RECURSIVE FindArg(_, _)
FindArg(seq, prefix) ==
    IF Len(seq) = 0 THEN None
    ELSE IF StartsWith(Head(seq), prefix) THEN Some(Head(seq))
    ELSE FindArg(Tail(seq), prefix)

\* `${error}` for an Error object
ErrorToString(e) == e.name \o ": " \o e.message

NewError(msg) == [name |-> "Error", message |-> msg]

(***************************************************************************)
(* File Filter: excludePatterns and shouldIncludeFile.                     *)
(***************************************************************************)
\* A variant of excludePatterns: the two folder rules as bare substrings.
excludePatternsBareSubstring ==
    << [anchorEnd |-> TRUE,  text |-> ".graphql"],
       [anchorEnd |-> FALSE, text |-> "test-utils"],
       [anchorEnd |-> FALSE, text |-> "generated"],
       [anchorEnd |-> TRUE,  text |-> "CHANGELOG.md"],
       [anchorEnd |-> TRUE,  text |-> ".release-manifest.json"] >>

\* Each RegExp of excludePatterns as (anchored at end?, literal text).
excludePatterns ==
    << [anchorEnd |-> TRUE,  text |-> ".graphql"],
       [anchorEnd |-> FALSE, text |-> "/test-utils/"],
       [anchorEnd |-> FALSE, text |-> "/generated/"],
       [anchorEnd |-> TRUE,  text |-> "CHANGELOG.md"],
       [anchorEnd |-> TRUE,  text |-> ".release-manifest.json"] >>

\* RegExp.prototype.test for these patterns
PatternTest(pattern, file) ==
    IF pattern.anchorEnd THEN EndsWith(file, pattern.text)
    ELSE Contains(file, pattern.text)

shouldIncludeFile(file) ==
    ~ \E k \in 1..Len(excludePatterns) : PatternTest(excludePatterns[k], file)

(***************************************************************************)
(* execGit: the outcome of one version-control invocation whose child      *)
(* wrote `out` to its standard stream and `err` to its error stream.       *)
(***************************************************************************)
Resolved(v) == [status |-> "resolved", value |-> v, reason |-> NewError("")]

Rejected(e) == [status |-> "rejected", value |-> "", reason |-> e]

\* A variant of execGit: any error-stream output is a failure.
execGitAnyStderrFails(out, err) ==
    IF err # ""
    THEN Rejected(NewError(err))
    ELSE Resolved(Trim(out))

execGit(out, err) ==
    IF err # "" /\ out = ""
    THEN Rejected(NewError(err))
    ELSE Resolved(Trim(out))

(***************************************************************************)
(* generateReview: the outcome of the POST, given what came back.  A reply *)
(* is either a transport failure (fetch rejects with `error`) or a         *)
(* response with a status and a body that parses as JSON or does not.      *)
(***************************************************************************)
ResponseOk(status) == status \in 200..299

\* A variant of generateReviewTry: response.ok is not looked at.
generateReviewTryStatusIgnored(reply) ==
    IF reply.kind = "transport" THEN Rejected(reply.error)
    ELSE IF ~reply.json
         THEN Rejected([name |-> "SyntaxError", message |-> "Failed to parse JSON"])
    ELSE Resolved(reply.response)

\* What the try block of generateReview throws, if anything, else data.response.
generateReviewTry(reply) ==
    IF reply.kind = "transport" THEN Rejected(reply.error)
    ELSE IF ~ResponseOk(reply.status)
         THEN Rejected(NewError("HTTP error! status: " \o ToString(reply.status)))
    ELSE IF ~reply.json
         THEN Rejected([name |-> "SyntaxError", message |-> "Failed to parse JSON"])
    ELSE Resolved(reply.response)

\* A variant of generateReview: no catch block, the error propagates.
generateReviewNoCatch(reply) == generateReviewTry(reply)

\* The catch block turns whatever the try block threw into a review string.
generateReview(reply) ==
    LET t == generateReviewTry(reply)
    IN  IF t.status = "rejected"
        THEN Resolved("Error generating review: " \o ErrorToString(t.reason))
        ELSE t

(***************************************************************************)
(* review(): pieces of its body.                                           *)
(***************************************************************************)
NoRelevantFiles == "No relevant files to review (all changed files were excluded by filters)"

NoChangesDetected == "No changes detected in relevant files"

\* filesOutput.split("\n").filter(Boolean)
ParseListing(filesOutput) == SelectSeq(Split(filesOutput, "\n"), LAMBDA l : l # "")

\* allFiles.filter(file => this.shouldIncludeFile(file))
FilterFiles(all) == SelectSeq(all, shouldIncludeFile)

\* A variant of PromiseAllStore: values are collected in completion order.
PromiseAllStoreByCompletion(vals, ord, i, v) == [vals EXCEPT ![Len(ord) + 1] = Some(v)]

\* Promise.all: where the value of the i-th promise goes when it fulfils.
PromiseAllStore(vals, ord, i, v) == [vals EXCEPT ![i] = Some(v)]

\* A variant of PromiseAllFulfilled: the fan-out is not awaited.
PromiseAllNotAwaited(run) == TRUE

\* Promise.all: fulfils once no input promise is outstanding.
PromiseAllFulfilled(run) == run = {}

\* Array.prototype.join over the collected array (an empty slot joins as "").
JoinDiffs(ds) == Join([i \in 1..Len(ds) |-> IF ds[i] = None THEN "" ELSE ds[i][1]], "\n\n")

\* A variant of NoFilesToReview: the early return is missing.
NoFilesCheckMissing(fs) == FALSE

\* if (files.length === 0): the early return before any diff is fetched
NoFilesToReview(fs) == Len(fs) = 0

\* if (!combinedDiff)
NoChanges(combined) == combined = ""

\* A variant of reviewCatch: the caught error is re-thrown as it is.
reviewCatchRethrow(e) == e

\* the catch of review(): the error it re-throws for the error it caught
reviewCatch(e) == NewError("Failed to review code: " \o ErrorToString(e))

(***************************************************************************)
(* main(): pieces of its body.                                             *)
(***************************************************************************)
\* process.argv.find(arg => arg.startsWith(prefix))?.split("=")[1]
ArgValue(av, prefix) ==
    LET found == FindArg(av, prefix)
    IN  IF found = None THEN None ELSE Some(Split(found[1], "=")[2])

\* x || fallback
OrElse(o, fallback) == IF Truthy(o) THEN o ELSE Some(fallback)

ParseArgs(av) ==
    [repo   |-> ArgValue(av, "--repo="),
     branch |-> ArgValue(av, "--branch="),
     base   |-> OrElse(ArgValue(av, "--base="), "main"),
     model  |-> OrElse(ArgValue(av, "--model="), "llama3.2")]

\* A variant of MissingArgs: only --repo is required.
MissingArgsRepoOnly(a) == ~Truthy(a.repo)

\* if (!args.repo || !args.branch)
MissingArgs(a) == ~Truthy(a.repo) \/ ~Truthy(a.branch)

Line(stream, kind, text) == [stream |-> stream, kind |-> kind, text |-> text]

UsageLines == << Line("stdout", "usage", "Usage: bun run review.ts --repo=<path> --branch=<branch> [--base=<base-branch>] [--model=<model>]") >>

\* the console.log calls of main() after review() returned
ResultLines(r) ==
    << Line("stdout", "header", "Files Changed:") >>
    \o [i \in 1..Len(r.files) |-> Line("stdout", "file", r.files[i])]
    \o << Line("stdout", "header", "Review Results:"),
          Line("stdout", "review", r.review),
          Line("stdout", "done", "Review completed successfully!") >>

\* console.error("Error:", error.message)
ErrorLines(e) == << Line("stderr", "error", e.message) >>

(***************************************************************************)
(* The environment: command lines, what the version-control tool writes,   *)
(* and what the model endpoint answers.                                    *)
(***************************************************************************)
ArgvChoices ==
    { << "--repo=~/Projects/myapp", "--branch=feature/new-feature" >>,
      << "--branch=fix=1", "--repo=/srv/app", "--base=develop", "--model=llama2:3b" >>,
      << "--repo=~/Projects/myapp" >>,
      << "--branch=feature/new-feature", "--base=develop" >>,
      << "--repo=", "--branch=feature/new-feature" >>,
      << >> }

ListedPaths ==
    { "src/x.ts", "generated", "test-utils", "a.graphql", "pkg/generated/y.ts",
      "lib/test-utils/h.ts", "CHANGELOG.md", "pkg/.release-manifest.json" }

SeqsUpTo(S, n) == UNION { [1..k -> S] : k \in 0..n }

\* `git diff --name-only` prints one path per line.
ListingText(paths) == Join([i \in 1..Len(paths) |-> paths[i] \o "\n"], "")

ExampleListing == << "a.graphql", "src/x.ts", "pkg/generated/y.ts" >>

ListingOuts ==
    { ListingText(ps) : ps \in SeqsUpTo(ListedPaths, MaxListed) }
    \cup { ListingText(ExampleListing), "\n", "src/x.ts\n\ngenerated\n" }

ListingErrs == { "", "fatal: ambiguous argument: unknown revision\n" }

\* what `git diff A...B -- file` may write for a file
DiffOuts(file) == { "", "diff --git a/" \o file \o "\n+changed\n" }

DiffErrs == { "", "warning: LF will be replaced by CRLF\n" }

HttpReplies ==
    { [kind |-> "transport", error |-> [name |-> "ConnectionRefused", message |-> "Unable to connect"],
       status |-> 0, json |-> FALSE, response |-> ""],
      [kind |-> "transport", error |-> [name |-> "TimeoutError", message |-> "The operation timed out"],
       status |-> 0, json |-> FALSE, response |-> ""],
      [kind |-> "response", error |-> NewError(""), status |-> 500, json |-> TRUE, response |-> "busy"],
      [kind |-> "response", error |-> NewError(""), status |-> 404, json |-> FALSE, response |-> ""],
      [kind |-> "response", error |-> NewError(""), status |-> 200, json |-> FALSE, response |-> ""],
      [kind |-> "response", error |-> NewError(""), status |-> 200, json |-> TRUE, response |-> "OK"] }

(***************************************************************************)
(* The state machine.                                                      *)
(***************************************************************************)
Init ==
    /\ argv \in ArgvChoices
    /\ pc = "main"
    /\ args = None
    /\ listing = None
    /\ allFiles = <<>>
    /\ files = <<>>
    /\ procs = <<>>
    /\ running = {}
    /\ values = <<>>
    /\ order = <<>>
    /\ diffs = None
    /\ combinedDiff = ""
    /\ pending = None
    /\ httpCount = 0
    /\ httpInFlight = FALSE
    /\ httpReply = None
    /\ result = None
    /\ thrown = <<>>
    /\ printed = <<>>
    /\ exitStatus = None

\* main(): a required argument is missing: print the usage and process.exit(1).
MainUsage ==
    /\ pc = "main"
    /\ MissingArgs(ParseArgs(argv))
    /\ args' = Some(ParseArgs(argv))
    /\ printed' = printed \o UsageLines
    /\ exitStatus' = Some(1)
    /\ pc' = "exited"
    /\ UNCHANGED <<argv, listing, allFiles, files, procs, running, values, order, diffs,
                   combinedDiff, pending, httpCount, httpInFlight, httpReply, result, thrown>>

\* main(): construct the bot and call review(), which runs up to its first
\* await: the `git diff --name-only` child is spawned.
MainReview ==
    /\ pc = "main"
    /\ ~MissingArgs(ParseArgs(argv))
    /\ args' = Some(ParseArgs(argv))
    /\ pc' = "listing"
    /\ UNCHANGED <<argv, listing, allFiles, files, procs, running, values, order, diffs,
                   combinedDiff, pending, httpCount, httpInFlight, httpReply, result, thrown,
                   printed, exitStatus>>

\* review(): the listing child's streams have been read; split, filter, and
\* either return early or start one execGit per file.
ListFiles(out, err) ==
    /\ pc = "listing"
    /\ listing' = Some([out |-> out, err |-> err])
    /\ LET r == execGit(out, err)
           all == ParseListing(r.value)
           fs == FilterFiles(all)
       IN  IF r.status = "rejected"
           THEN /\ pending' = Some(r.reason)
                /\ pc' = "reviewCatch"
                /\ UNCHANGED <<allFiles, files, procs, running, values, result>>
           ELSE /\ allFiles' = all
                /\ files' = fs
                /\ pending' = pending
                /\ IF NoFilesToReview(fs)
                   THEN /\ result' = Some([files |-> <<>>, review |-> NoRelevantFiles])
                        /\ pc' = "mainPrint"
                        /\ UNCHANGED <<procs, running, values>>
                   ELSE /\ procs' = [i \in 1..Len(fs) |-> None]
                        /\ values' = [i \in 1..Len(fs) |-> None]
                        /\ running' = 1..Len(fs)
                        /\ pc' = "awaitAll"
                        /\ result' = result
    /\ UNCHANGED <<argv, args, order, diffs, combinedDiff, httpCount, httpInFlight,
                   httpReply, thrown, printed, exitStatus>>

\* The execGit call for files[i] finishes: Promise.all stores its value, or
\* rejects with its error, which resumes review() in its catch.
FetchSettle(i, out, err) ==
    /\ pc = "awaitAll"
    /\ i \in running
    /\ procs' = [procs EXCEPT ![i] = Some([out |-> out, err |-> err])]
    /\ running' = running \ {i}
    /\ LET r == execGit(out, err)
       IN  IF r.status = "rejected"
           THEN /\ pending' = Some(r.reason)
                /\ pc' = "reviewCatch"
                /\ UNCHANGED <<values, order>>
           ELSE /\ values' = PromiseAllStore(values, order, i, r.value)
                /\ order' = Append(order, i)
                /\ UNCHANGED <<pending, pc>>
    /\ UNCHANGED <<argv, args, listing, allFiles, files, diffs, combinedDiff, httpCount,
                   httpInFlight, httpReply, result, thrown, printed, exitStatus>>

\* review(): Promise.all fulfilled; join the diffs, and either return the
\* "no changes" result or call generateReview, which issues the POST.
AllFulfilled ==
    /\ pc = "awaitAll"
    /\ PromiseAllFulfilled(running)
    /\ diffs' = Some(values)
    /\ combinedDiff' = JoinDiffs(values)
    /\ IF NoChanges(JoinDiffs(values))
       THEN /\ result' = Some([files |-> files, review |-> NoChangesDetected])
            /\ pc' = "mainPrint"
            /\ UNCHANGED <<httpCount, httpInFlight>>
       ELSE /\ httpCount' = httpCount + 1
            /\ httpInFlight' = TRUE
            /\ pc' = "httpWait"
            /\ result' = result
    /\ UNCHANGED <<argv, args, listing, allFiles, files, procs, running, values, order,
                   pending, httpReply, thrown, printed, exitStatus>>

\* generateReview(): the POST settles; review() returns { files, review }.
HttpSettle(reply) ==
    /\ pc = "httpWait"
    /\ httpReply' = Some(reply)
    /\ httpInFlight' = FALSE
    /\ LET g == generateReview(reply)
       IN  IF g.status = "rejected"
           THEN /\ pending' = Some(g.reason)
                /\ pc' = "reviewCatch"
                /\ result' = result
           ELSE /\ result' = Some([files |-> files, review |-> g.value])
                /\ pc' = "mainPrint"
                /\ pending' = pending
    /\ UNCHANGED <<argv, args, listing, allFiles, files, procs, running, values, order,
                   diffs, combinedDiff, httpCount, thrown, printed, exitStatus>>

\* review(): the catch block wraps the error and throws it to main().
ReviewCatch ==
    /\ pc = "reviewCatch"
    /\ thrown' = Append(thrown, reviewCatch(pending[1]))
    /\ pc' = "mainCatch"
    /\ UNCHANGED <<argv, args, listing, allFiles, files, procs, running, values, order,
                   diffs, combinedDiff, pending, httpCount, httpInFlight, httpReply,
                   result, printed, exitStatus>>

\* main(): the catch block prints the message and process.exit(1).
MainCatch ==
    /\ pc = "mainCatch"
    /\ printed' = printed \o ErrorLines(thrown[Len(thrown)])
    /\ exitStatus' = Some(1)
    /\ pc' = "exited"
    /\ UNCHANGED <<argv, args, listing, allFiles, files, procs, running, values, order,
                   diffs, combinedDiff, pending, httpCount, httpInFlight, httpReply,
                   result, thrown>>

\* main(): review() returned; print the files and the review.
MainPrint ==
    /\ pc = "mainPrint"
    /\ printed' = printed \o ResultLines(result[1])
    /\ pc' = "mainDone"
    /\ UNCHANGED <<argv, args, listing, allFiles, files, procs, running, values, order,
                   diffs, combinedDiff, pending, httpCount, httpInFlight, httpReply,
                   result, thrown, exitStatus>>

\* main() has returned and nothing is outstanding: the process ends with status 0.
ProcessEnd ==
    /\ pc = "mainDone"
    /\ exitStatus' = Some(0)
    /\ pc' = "exited"
    /\ UNCHANGED <<argv, args, listing, allFiles, files, procs, running, values, order,
                   diffs, combinedDiff, pending, httpCount, httpInFlight, httpReply,
                   result, thrown, printed>>

Next ==
    \/ MainUsage
    \/ MainReview
    \/ \E out \in ListingOuts, err \in ListingErrs : ListFiles(out, err)
    \/ \E i \in running : \E out \in DiffOuts(files[i]), err \in DiffErrs : FetchSettle(i, out, err)
    \/ AllFulfilled
    \/ \E reply \in HttpReplies : HttpSettle(reply)
    \/ ReviewCatch
    \/ MainCatch
    \/ MainPrint
    \/ ProcessEnd

Spec == Init /\ [][Next]_vars

(***************************************************************************)
(* Observations of a run used by the properties below.                     *)
(***************************************************************************)
\* The tool wrote only to its error stream.
OnlyErrorStream(o) == o.err # "" /\ o.out = ""

ListingSucceeded == listing # None /\ ~OnlyErrorStream(listing[1])

ListingFailed == listing # None /\ OnlyErrorStream(listing[1])

FetchDone(i) == i \in DOMAIN procs /\ procs[i] # None

FetchFailed(i) == FetchDone(i) /\ OnlyErrorStream(procs[i][1])

AllFetchesSucceeded ==
    /\ procs # <<>>
    /\ \A i \in DOMAIN procs : FetchDone(i) /\ ~OnlyErrorStream(procs[i][1])

ReviewReturned == result # None

StatusFailure == httpReply # None /\ httpReply[1].kind = "response" /\ ~(httpReply[1].status \in 200..299)

TransportFailure ==
    /\ httpReply # None
    /\ \/ httpReply[1].kind = "transport"
       \/ httpReply[1].kind = "response" /\ httpReply[1].status \in 200..299 /\ ~httpReply[1].json

(***************************************************************************)
(* C1: for every non-empty filtered file set, if every per-file diff fetch *)
(* succeeds and returns the empty string, review() returns the filtered    *)
(* files with "No changes detected in relevant files" and no HTTP request  *)
(* is issued.  (Stated as the claim states it.)                            *)
(***************************************************************************)
C1_EmptyDiffsShortCircuit ==
    ( /\ diffs # None
      /\ Len(files) > 0
      /\ AllFetchesSucceeded
      /\ \A i \in DOMAIN procs : Trim(procs[i][1].out) = "" )
    => /\ result = Some([files |-> files, review |-> NoChangesDetected])
       /\ httpCount = 0

(***************************************************************************)
(* C2 as stated: a non-success HTTP status is fatal to the run, review()   *)
(* returns no ReviewResult.                                                *)
(***************************************************************************)
C2_StatusFailureIsFatal == StatusFailure => ~ReviewReturned

(***************************************************************************)
(* C2 as amended: a non-success HTTP status is converted, inside           *)
(* generateReview, into the placeholder review string carrying the status  *)
(* code, and review() returns a ReviewResult with the filtered files and   *)
(* that string; no error leaves review().                                  *)
(***************************************************************************)
C2_StatusFailureBecomesPlaceholder ==
    StatusFailure =>
        /\ result = Some([files |-> files,
                          review |-> "Error generating review: Error: HTTP error! status: "
                                     \o ToString(httpReply[1].status)])
        /\ pending = None
        /\ thrown = <<>>
        /\ exitStatus # Some(1)

C2_Witness ==
    /\ StatusFailure
    /\ httpReply[1].status = 500
    /\ exitStatus = Some(0)

(***************************************************************************)
(* C3: once the fan-out has been collected, the result has one element per *)
(* file, its i-th element is the diff produced for files[i] whatever the   *)
(* completion order was, and the combined diff joins them in file order.   *)
(***************************************************************************)
C3_OrderPreserved ==
    diffs # None =>
        /\ Len(diffs[1]) = Len(files)
        /\ \A i \in 1..Len(files) :
              /\ FetchDone(i)
              /\ diffs[1][i] = Some(Trim(procs[i][1].out))
              /\ diffs[1][i][1] # "" => Contains(diffs[1][i][1], files[i])
        /\ combinedDiff = Join([i \in 1..Len(files) |-> Trim(procs[i][1].out)], "\n\n")

\* The second file's fetch completed first, and the two diffs differ.
C3_Witness ==
    /\ diffs # None
    /\ Len(order) >= 2 /\ order[1] = 2 /\ order[2] = 1
    /\ diffs[1][1] # diffs[1][2]

(***************************************************************************)
(* C4: if the listing succeeds and the filtered file set is empty,         *)
(* review() returns { files: [], review: "No relevant files to review      *)
(* (all changed files were excluded by filters)" } and neither a per-file  *)
(* diff fetch nor an HTTP request is issued.                               *)
(***************************************************************************)
C4_EmptyFilteredSet ==
    (ListingSucceeded /\ files = <<>>) =>
        /\ result = Some([files |-> <<>>, review |-> NoRelevantFiles])
        /\ procs = <<>> /\ running = {} /\ order = <<>>
        /\ httpCount = 0 /\ ~httpInFlight /\ httpReply = None
        /\ thrown = <<>>

\* Every listed file was excluded, and the run ended.
C4_Witness ==
    /\ ListingSucceeded
    /\ allFiles # <<>> /\ files = <<>>
    /\ exitStatus = Some(0)

(***************************************************************************)
(* C5: if the model call fails at transport level (the request is refused  *)
(* or times out, or the body of a successful response does not parse),     *)
(* review() returns the filtered files with a review string starting with  *)
(* "Error generating review: ", and no error leaves review().              *)
(***************************************************************************)
C5_TransportFailSoft ==
    TransportFailure =>
        /\ ReviewReturned
        /\ result[1].files = files
        /\ StartsWith(result[1].review, "Error generating review: ")
        /\ pending = None
        /\ thrown = <<>>
        /\ exitStatus # Some(1)

C5_Witness ==
    /\ TransportFailure
    /\ httpReply[1].kind = "transport"
    /\ exitStatus = Some(0)

(***************************************************************************)
(* C6: if the listing or any per-file diff fetch fails, then however many  *)
(* other fetches succeeded and in whatever order, review() returns no      *)
(* result, nothing of a result is printed, no HTTP request is issued, and  *)
(* exactly one error leaves review(): "Failed to review code: " followed   *)
(* by the underlying failure.                                              *)
(***************************************************************************)
C6_Underlying ==
    IF ListingFailed THEN listing[1].err
    ELSE LET i == CHOOSE j \in DOMAIN procs : FetchFailed(j) IN procs[i][1].err

C6_FailureAbortsRun ==
    (ListingFailed \/ \E i \in DOMAIN procs : FetchFailed(i)) =>
        /\ ~ReviewReturned
        /\ httpCount = 0 /\ ~httpInFlight
        /\ \A k \in 1..Len(printed) : printed[k].stream = "stderr"
        /\ Len(thrown) <= 1
        /\ pc \in {"mainCatch", "exited"} =>
              thrown = << [name |-> "Error",
                           message |-> "Failed to review code: Error: " \o C6_Underlying] >>

\* A fetch failed after another fetch had already succeeded.
C6_Witness ==
    /\ \E i \in DOMAIN procs : FetchFailed(i)
    /\ order # <<>>
    /\ exitStatus = Some(1)

(***************************************************************************)
(* C7: the HTTP request is issued at most once and only after every        *)
(* per-file diff fetch of the run has completed: no version-control child  *)
(* is in flight once the request has been issued.                          *)
(***************************************************************************)
C7_HttpAfterAllFetches ==
    /\ httpCount <= 1
    /\ httpInFlight => httpCount = 1
    /\ httpCount >= 1 =>
          /\ pc # "listing"
          /\ running = {}
          /\ \A i \in DOMAIN procs : FetchDone(i)
          /\ DOMAIN procs = 1..Len(files)

C7_Witness ==
    /\ httpInFlight
    /\ Len(files) >= 2

(***************************************************************************)
(* C8: the filtered file set is the subsequence, in listing order, of the  *)
(* listed paths that match none of the five rules; a path that is exactly  *)
(* `generated` or `test-utils` is kept, and the listing a.graphql,         *)
(* src/x.ts, pkg/generated/y.ts filters to src/x.ts.                       *)
(***************************************************************************)
C8_Excluded(path) ==
    \/ EndsWith(path, ".graphql")
    \/ Contains(path, "/test-utils/")
    \/ Contains(path, "/generated/")
    \/ EndsWith(path, "CHANGELOG.md")
    \/ EndsWith(path, ".release-manifest.json")

C8_FilteredSet ==
    ListingSucceeded =>
        /\ files = SelectSeq(allFiles, LAMBDA path : ~C8_Excluded(path))
        /\ \A k \in 1..Len(allFiles) :
              allFiles[k] \in {"generated", "test-utils"} =>
                  \E m \in 1..Len(files) : files[m] = allFiles[k]
        /\ listing[1].out = "a.graphql\nsrc/x.ts\npkg/generated/y.ts\n" =>
              /\ allFiles = << "a.graphql", "src/x.ts", "pkg/generated/y.ts" >>
              /\ files = << "src/x.ts" >>

C8_Witness ==
    /\ ListingSucceeded
    /\ listing[1].out = "a.graphql\nsrc/x.ts\npkg/generated/y.ts\n"
    /\ files = << "src/x.ts" >>

(***************************************************************************)
(* C9: a version-control invocation fails if and only if the tool wrote    *)
(* to its error stream and nothing to its standard stream; in every other  *)
(* case the caller proceeds with the (trimmed) standard-stream output.     *)
(***************************************************************************)
C9_VcsFailsIffOnlyErrorStream ==
    /\ listing # None =>
          IF OnlyErrorStream(listing[1])
          THEN /\ pending = Some([name |-> "Error", message |-> listing[1].err])
               /\ allFiles = <<>> /\ procs = <<>> /\ result = None
          ELSE /\ pc \notin {"main", "listing"}
               /\ allFiles = SelectSeq(Split(Trim(listing[1].out), "\n"), LAMBDA l : l # "")
               /\ (procs = <<>> => pending = None)
    /\ \A i \in DOMAIN procs :
          procs[i] # None =>
              IF OnlyErrorStream(procs[i][1])
              THEN /\ pending = Some([name |-> "Error", message |-> procs[i][1].err])
                   /\ values[i] = None
                   /\ \A k \in 1..Len(order) : order[k] # i
              ELSE /\ values[i] = Some(Trim(procs[i][1].out))
                   /\ \E k \in 1..Len(order) : order[k] = i

\* Both streams were written by the listing and by a fetch, and the run succeeded.
C9_Witness ==
    /\ listing # None /\ listing[1].err # "" /\ listing[1].out # ""
    /\ \E i \in DOMAIN procs : procs[i] # None /\ procs[i][1].err # "" /\ procs[i][1].out # ""
    /\ exitStatus = Some(0)

(***************************************************************************)
(* C10: with --repo or --branch missing the run prints the usage and exits *)
(* with status 1 without invoking the version-control tool or the model;   *)
(* if review() raises, the run prints the error message and exits with     *)
(* status 1 without printing a file list or review; the run exits with     *)
(* status 0 only after review() returned and the file list and then the    *)
(* review text were printed.                                               *)
(***************************************************************************)
C10_ArgMissing == FindArg(argv, "--repo=") = None \/ FindArg(argv, "--branch=") = None

C10_ExitStatus ==
    /\ C10_ArgMissing =>
          /\ pc \in {"main", "exited"}
          /\ listing = None /\ procs = <<>> /\ running = {}
          /\ httpCount = 0
          /\ result = None /\ thrown = <<>>
          /\ pc = "exited" =>
                /\ exitStatus = Some(1)
                /\ Len(printed) = 1 /\ printed[1].kind = "usage"
    /\ (thrown # <<>> /\ pc = "exited") =>
          /\ exitStatus = Some(1)
          /\ printed = << [stream |-> "stderr", kind |-> "error", text |-> thrown[1].message] >>
    /\ exitStatus = Some(0) =>
          /\ ReviewReturned
          /\ thrown = <<>>
          /\ SelectSeq(printed, LAMBDA l : l.kind \in {"file", "review"})
                = [i \in 1..Len(result[1].files) |->
                      [stream |-> "stdout", kind |-> "file", text |-> result[1].files[i]]]
                  \o << [stream |-> "stdout", kind |-> "review", text |-> result[1].review] >>
    /\ pc = "exited" <=> exitStatus # None

C10_Witness ==
    /\ exitStatus = Some(0)
    /\ Len(result[1].files) >= 1
    /\ httpCount = 1

====
